---------------------------- MODULE Spec2Model ----------------------------
(***************************************************************************)
(* State-machine model of mcp-secrets (example_python): the keyring-backed *)
(* secret store (mcp_secrets/storage.py), the manager with its session     *)
(* permission cache (mcp_secrets/__init__.py) and the dialog flow          *)
(* (mcp_secrets/fetcher.py, mcp_secrets/ui_handler.py).                    *)
(***************************************************************************)
EXTENDS Integers, Sequences, FiniteSets, TLC

(***************************************************************************)
(* Python values.  Every value the model handles is one record shape, so   *)
(* that values of different Python types can be compared.  A str whose     *)
(* text is the JSON encoding of a list is kept structured (json = TRUE,    *)
(* items = the list); any other str has json = FALSE and its text in s.    *)
(***************************************************************************)
PyNone == [type |-> "NoneType", s |-> "", n |-> 0, json |-> FALSE, items |-> <<>>]

PyStr(text) == [type |-> "str", s |-> text, n |-> 0, json |-> FALSE, items |-> <<>>]

PyInt(i) == [type |-> "int", s |-> "", n |-> i, json |-> FALSE, items |-> <<>>]

\* the str produced by json.dumps of the list `seq` of names
JsonListStr(seq) == [type |-> "str", s |-> "", n |-> 0, json |-> TRUE, items |-> seq]

\* Python truthiness of None and of str
Truthy(v) == v.type = "str" /\ (v.json \/ v.s # "")

\* built-in str(): a str is returned as it is, an int as its decimal text
str(v) == IF v.type = "int" THEN PyStr(ToString(v.n))
          ELSE IF v.type = "NoneType" THEN PyStr("None")
          ELSE v

(***************************************************************************)
(* Domains of the inputs.                                                  *)
(***************************************************************************)
\* the fields of SECRETS_INFO, in its order
SECRETS_INFO == <<"api_key", "endpoint", "timeout">>

\* how many of them the model uses as secret names
MaxNames == 2

\* secret names; none is the reserved keyring username of the index
Names == {SECRETS_INFO[i] : i \in 1..MaxNames}

\* the reserved keyring username that holds the index
index_username == "__secret_index__"

Keys == Names \cup {index_username}

\* contents handed to store_secret: a string and a non-string
Contents == {PyStr("sk-123"), PyInt(30)}

\* every order in which the elements of the set S can be listed
Orders(S) == {q \in [1..Cardinality(S) -> S] : \A i, j \in 1..Cardinality(S) : q[i] = q[j] => i = j}

SeqToSet(q) == {q[i] : i \in 1..Len(q)}

VARIABLES
    keyring,              \* the OS vault for service com.mcp.<server>: key -> password or PyNone
    secrets_storage,      \* MCPSecretsManager.secrets_storage is bound (TRUE) or None (FALSE)
    session_permissions,  \* MCPSecretsManager.session_permissions: the names granted for the session
    environ,              \* os.environ: the two variables the program reads
    server_name,          \* MCPSecretsManager.server_name, "" while the attribute is not set
    rwp,                  \* the frame of the retrieve_secret_with_permission call
    fetch,                \* the frame of the fetch_secrets call
    dialog_task,          \* the asyncio task that runs collect_secrets_async
    last,                 \* the last completed storage call: what was called and whether it raised
    stored_names,         \* history: names stored and not subsequently deleted
    granted,              \* history: names answered "Allow for Session" since initialize()
    cleared_grants        \* history: names in session_permissions whose secret clear_secrets() removed

vars ==
    <<keyring, secrets_storage, session_permissions, environ, server_name, rwp, fetch, dialog_task,
      last, stored_names, granted, cleared_grants>>

(***************************************************************************)
(* The keyring primitive (package keyring), on a vault kr.                 *)
(***************************************************************************)
get_password(kr, username) == kr[username]

set_password(kr, username, password) == [kr EXCEPT ![username] = password]

\* delete_password raises PasswordDeleteError when the entry is absent
delete_password_raises(kr, username) == kr[username] = PyNone

delete_password(kr, username) == [kr EXCEPT ![username] = PyNone]

(***************************************************************************)
(* MCPSecretsStorage.  An operation that writes returns the set of its     *)
(* possible outcomes [kr, raised]: the order in which a Python set is      *)
(* listed is not fixed, so the index text written is one of several.       *)
(***************************************************************************)
\* faulty variant: the content is JSON-encoded, which puts a str in quotes
_serialize_secret_content_json(content) ==
    IF content.type = "str" THEN PyStr("\"" \o content.s \o "\"") ELSE str(content)

_serialize_secret_content(content) == str(content)

_deserialize_secret_content(serialized_content) == serialized_content

\* json.dumps(list(index_set)): the set listed in some order
_serialize_index_content(index_set) == {JsonListStr(q) : q \in Orders(index_set)}

\* json.loads, then set(data) when data is a list; anything else is the empty set
_deserialize_index_content(serialized_index) ==
    IF Truthy(serialized_index)
    THEN IF serialized_index.json THEN SeqToSet(serialized_index.items) ELSE {}
    ELSE {}

_get_secret_index(kr) == _deserialize_index_content(get_password(kr, index_username))

\* faulty variant: the index is overwritten with the new name instead of being read and extended
_update_secret_index_overwrite(kr, secret_name) ==
    {set_password(kr, index_username, ser) : ser \in _serialize_index_content({secret_name})}

_update_secret_index(kr, secret_name) ==
    LET index == _get_secret_index(kr) \cup {secret_name}
    IN  {set_password(kr, index_username, ser) : ser \in _serialize_index_content(index)}

\* faulty variant: an index that became empty is written back as an empty list
_remove_from_secret_index_keep_empty(kr, secret_name) ==
    LET index == _get_secret_index(kr) \ {secret_name}
    IN  {set_password(kr, index_username, ser) : ser \in _serialize_index_content(index)}

_remove_from_secret_index(kr, secret_name) ==
    LET index == _get_secret_index(kr) \ {secret_name}
    IN  IF index # {}
        THEN {set_password(kr, index_username, ser) : ser \in _serialize_index_content(index)}
        ELSE {delete_password(kr, index_username)}

Storage_store_secret(kr, secret_name, content) ==
    LET kr1 == set_password(kr, secret_name, _serialize_secret_content(content))
    IN  {[kr |-> kr2, raised |-> FALSE] : kr2 \in _update_secret_index(kr1, secret_name)}

Storage_retrieve_secret(kr, secret_name) ==
    _deserialize_secret_content(get_password(kr, secret_name))

Storage_delete_secret(kr, secret_name) ==
    IF delete_password_raises(kr, secret_name)
    THEN {[kr |-> kr, raised |-> TRUE]}
    ELSE {[kr |-> kr2, raised |-> FALSE] :
              kr2 \in _remove_from_secret_index(delete_password(kr, secret_name), secret_name)}

\* list(index): the names, as a set
Storage_list_secrets(kr) == _get_secret_index(kr)

\* the loop of _delete_all_secrets over the names in the order `order`
RECURSIVE delete_each(_, _)
delete_each(kr, order) ==
    IF order = <<>>
    THEN {[kr |-> kr, raised |-> FALSE]}
    ELSE UNION {IF o.raised THEN {o} ELSE delete_each(o.kr, Tail(order)) :
                    o \in Storage_delete_secret(kr, Head(order))}

\* faulty variant: only the index entry is deleted, the secrets it names are left in the vault
_delete_all_secrets_index_only(kr) ==
    {[kr |-> delete_password(kr, index_username), raised |-> FALSE]}

_delete_all_secrets(kr) ==
    UNION {{IF o.raised THEN o ELSE [kr |-> delete_password(o.kr, index_username), raised |-> FALSE] :
                o \in delete_each(kr, order)} :
           order \in Orders(_get_secret_index(kr))}

Storage_clear_secrets(kr) == _delete_all_secrets(kr)

(***************************************************************************)
(* MCPSecretsStorage on a vault whose primitive may fail.  A fault is the  *)
(* set of primitive calls <<primitive, username>> that raise while one     *)
(* operation runs; the operation stops at the first call that raises,      *)
(* unless the code catches it, and the vault keeps what was written.       *)
(***************************************************************************)
Primitives == {"get_password", "set_password", "delete_password"}

\* no call fails, or the calls of one primitive on one entry fail
Faults == {{}} \cup {{<<primitive, username>>} : primitive \in Primitives, username \in Keys}

raises(fault, primitive, username) == <<primitive, username>> \in fault

Storage_store_secret_fault(kr, fault, secret_name, content) ==
    IF raises(fault, "set_password", secret_name)
    THEN {[kr |-> kr, raised |-> TRUE]}
    ELSE LET kr1 == set_password(kr, secret_name, _serialize_secret_content(content))
         IN  IF \/ raises(fault, "get_password", index_username)
                \/ raises(fault, "set_password", index_username)
             THEN {[kr |-> kr1, raised |-> TRUE]}
             ELSE {[kr |-> kr2, raised |-> FALSE] : kr2 \in _update_secret_index(kr1, secret_name)}

Storage_delete_secret_fault(kr, fault, secret_name) ==
    IF raises(fault, "delete_password", secret_name) \/ delete_password_raises(kr, secret_name)
    THEN {[kr |-> kr, raised |-> TRUE]}
    ELSE LET kr1 == delete_password(kr, secret_name)
             index == _get_secret_index(kr1) \ {secret_name}
         IN  IF raises(fault, "get_password", index_username)
             THEN {[kr |-> kr1, raised |-> TRUE]}
             ELSE IF index # {} /\ raises(fault, "set_password", index_username)
             THEN {[kr |-> kr1, raised |-> TRUE]}
             ELSE IF index = {} /\ raises(fault, "delete_password", index_username)
             THEN {[kr |-> kr1, raised |-> FALSE]}
             ELSE {[kr |-> kr2, raised |-> FALSE] : kr2 \in _remove_from_secret_index(kr1, secret_name)}

RECURSIVE delete_each_fault(_, _, _)
delete_each_fault(kr, fault, order) ==
    IF order = <<>>
    THEN {[kr |-> kr, raised |-> FALSE]}
    ELSE UNION {IF o.raised THEN {o} ELSE delete_each_fault(o.kr, fault, Tail(order)) :
                    o \in Storage_delete_secret_fault(kr, fault, Head(order))}

Storage_clear_secrets_fault(kr, fault) ==
    IF raises(fault, "get_password", index_username)
    THEN {[kr |-> kr, raised |-> TRUE]}
    ELSE UNION {{IF o.raised \/ raises(fault, "delete_password", index_username)
                 THEN o
                 ELSE [kr |-> delete_password(o.kr, index_username), raised |-> FALSE] :
                     o \in delete_each_fault(kr, fault, order)} :
                order \in Orders(_get_secret_index(kr))}


(***************************************************************************)
(* The record of the last completed call: the operation, its arguments,    *)
(* whether it raised, what the vault listed and held before it, and the    *)
(* call before it.                                                         *)
(***************************************************************************)
NoCall == [op |-> "none", raised |-> FALSE, listed |-> {}]

\* every listed name has a value in the vault
Held(kr) == \A n \in Storage_list_secrets(kr) : Storage_retrieve_secret(kr, n) # PyNone

Call(op, secret_name, content, raised) ==
    [op |-> op, secret_name |-> secret_name, content |-> content, raised |-> raised,
     held |-> Held(keyring),
     prev |-> [op |-> last.op, raised |-> last.raised, listed |-> last.listed],
     listed |-> Storage_list_secrets(keyring)]

EmptyKeyring == [k \in Keys |-> PyNone]

\* neither environment variable is set: os.getenv returns its default, "false"
NoEnviron == [MCP_BYPASS_SECRET_USE_CONFIRM |-> "false", SECRETS_STORAGE_CLEAR |-> "false"]

\* an elicitation result: its action and, when accepted, its data (a text or None)
Response(action, none, data) == [action |-> action, none |-> none, data |-> data]

NoResponse == Response("", TRUE, <<>>)

\* no fetch_secrets call has been made
NoFetch ==
    [pc |-> "idle", action |-> "", task_at_answer |-> "", status |-> FALSE, message |-> "",
     error |-> "", stored |-> <<>>]

\* no dialog task has been created
NoTask == [state |-> "none", returns |-> "", secrets |-> <<>>, error |-> ""]

\* no retrieve_secret_with_permission call has been made
NoFrame ==
    [pc |-> "idle", secret_name |-> "", ctx |-> FALSE, prompted |-> FALSE,
     response |-> NoResponse, result |-> PyNone, error |-> "", after_allow |-> "",
     after_clear |-> FALSE, at_check |-> PyNone]

\* an MCPSecretsStorage bound to a server whose vault holds nothing
InitBound ==
    /\ keyring = EmptyKeyring
    /\ secrets_storage = TRUE
    /\ session_permissions = {}
    /\ environ = NoEnviron
    /\ server_name = "MCP Secrets Example"
    /\ rwp = NoFrame
    /\ fetch = NoFetch
    /\ dialog_task = NoTask
    /\ last = [NoCall EXCEPT !.op = "initialize"]
    /\ stored_names = {}
    /\ granted = {}
    /\ cleared_grants = {}

(***************************************************************************)
(* The operations of an MCPSecretsStorage bound to the vault.              *)
(***************************************************************************)
MCPSecretsStorage_store_secret(secret_name, content) ==
    /\ \E o \in Storage_store_secret(keyring, secret_name, content) :
           /\ keyring' = o.kr
           /\ last' = Call("store_secret", secret_name, content, o.raised)
    /\ stored_names' = stored_names \cup {secret_name}
    /\ UNCHANGED <<secrets_storage, session_permissions, environ, cleared_grants, rwp, granted, fetch, dialog_task, server_name>>

MCPSecretsStorage_delete_secret(secret_name) ==
    /\ \E o \in Storage_delete_secret(keyring, secret_name) :
           /\ keyring' = o.kr
           /\ last' = Call("delete_secret", secret_name, PyNone, o.raised)
           /\ stored_names' = IF o.raised THEN stored_names ELSE stored_names \ {secret_name}
    /\ UNCHANGED <<secrets_storage, session_permissions, environ, cleared_grants, rwp, granted, fetch, dialog_task, server_name>>

MCPSecretsStorage_clear_secrets ==
    /\ \E o \in Storage_clear_secrets(keyring) :
           /\ keyring' = o.kr
           /\ last' = Call("clear_secrets", "", PyNone, o.raised)
           /\ stored_names' = {n \in stored_names : o.kr[n] # PyNone}
    /\ UNCHANGED <<secrets_storage, session_permissions, environ, cleared_grants, rwp, granted, fetch, dialog_task, server_name>>

\* retrieve_secret and list_secrets read the vault and change nothing
retrieve_secret(secret_name) == Storage_retrieve_secret(keyring, secret_name)

list_secrets == Storage_list_secrets(keyring)

secret_exists(secret_name) == secret_name \in list_secrets

\* the environment: an entry of the vault is deleted by something other than this program
out_of_band_delete(secret_name) ==
    /\ keyring[secret_name] # PyNone
    /\ keyring' = delete_password(keyring, secret_name)
    /\ last' = Call("out_of_band_delete", secret_name, PyNone, FALSE)
    /\ UNCHANGED <<secrets_storage, session_permissions, environ, cleared_grants, rwp, stored_names, granted, fetch, dialog_task, server_name>>

(***************************************************************************)
(* SpecSeq: sequences of store_secret and delete_secret on one identity,   *)
(* starting from an empty vault.                                           *)
(***************************************************************************)
NextSeq ==
    \/ \E n \in Names, c \in Contents : MCPSecretsStorage_store_secret(n, c)
    \/ \E n \in Names : MCPSecretsStorage_delete_secret(n)

SpecSeq == InitBound /\ [][NextSeq]_vars

(***************************************************************************)
(* SpecStore: every operation of the store, and out-of-band deletions.     *)
(***************************************************************************)
NextStore ==
    \/ \E n \in Names, c \in Contents : MCPSecretsStorage_store_secret(n, c)
    \/ \E n \in Names : MCPSecretsStorage_delete_secret(n)
    \/ MCPSecretsStorage_clear_secrets
    \/ \E n \in Names : out_of_band_delete(n)

SpecStore == InitBound /\ [][NextStore]_vars

(***************************************************************************)
(* SpecOps: sequences of store_secret, delete_secret and clear_secrets,    *)
(* with nothing else touching the vault.                                   *)
(***************************************************************************)
NextOps ==
    \/ \E n \in Names, c \in Contents : MCPSecretsStorage_store_secret(n, c)
    \/ \E n \in Names : MCPSecretsStorage_delete_secret(n)
    \/ MCPSecretsStorage_clear_secrets

SpecOps == InitBound /\ [][NextOps]_vars

(***************************************************************************)
(* SpecFault: store_secret, delete_secret and clear_secrets on a vault     *)
(* whose primitive may fail partway through an operation.                  *)
(***************************************************************************)
\* the names that have a value in the vault kr
Valued(kr) == {n \in Names : kr[n] # PyNone}

MCPSecretsStorage_store_secret_fault(secret_name, content, fault) ==
    /\ \E o \in Storage_store_secret_fault(keyring, fault, secret_name, content) :
           /\ keyring' = o.kr
           /\ last' = Call("store_secret", secret_name, content, o.raised)
           /\ stored_names' = Valued(o.kr)
    /\ UNCHANGED <<secrets_storage, session_permissions, environ, cleared_grants, rwp, granted, fetch, dialog_task, server_name>>

MCPSecretsStorage_delete_secret_fault(secret_name, fault) ==
    /\ \E o \in Storage_delete_secret_fault(keyring, fault, secret_name) :
           /\ keyring' = o.kr
           /\ last' = Call("delete_secret", secret_name, PyNone, o.raised)
           /\ stored_names' = Valued(o.kr)
    /\ UNCHANGED <<secrets_storage, session_permissions, environ, cleared_grants, rwp, granted, fetch, dialog_task, server_name>>

MCPSecretsStorage_clear_secrets_fault(fault) ==
    /\ \E o \in Storage_clear_secrets_fault(keyring, fault) :
           /\ keyring' = o.kr
           /\ last' = Call("clear_secrets", "", PyNone, o.raised)
           /\ stored_names' = Valued(o.kr)
    /\ UNCHANGED <<secrets_storage, session_permissions, environ, cleared_grants, rwp, granted, fetch, dialog_task, server_name>>

NextFault ==
    \/ \E n \in Names, c \in Contents, fault \in Faults :
           MCPSecretsStorage_store_secret_fault(n, c, fault)
    \/ \E n \in Names, fault \in Faults : MCPSecretsStorage_delete_secret_fault(n, fault)
    \/ \E fault \in Faults : MCPSecretsStorage_clear_secrets_fault(fault)

SpecFault == InitBound /\ [][NextFault]_vars

(***************************************************************************)
(* MCPSecretsManager: initialization, the guarded storage calls and the    *)
(* permission check of retrieve_secret_with_permission.                    *)
(***************************************************************************)
\* str.lower() on the values the environment variable takes
lower(text) == CASE text = "TRUE" -> "true" [] text = "True" -> "true" [] OTHER -> text

\* the values of the two environment variables
Environs ==
    [MCP_BYPASS_SECRET_USE_CONFIRM : {"false", "true", "TRUE"},
     SECRETS_STORAGE_CLEAR : {"false", "true"}]

\* faulty variant: the variable is compared without .lower()
bypass_prompts_exact == environ.MCP_BYPASS_SECRET_USE_CONFIRM = "true"

bypass_prompts == lower(environ.MCP_BYPASS_SECRET_USE_CONFIRM) = "true"

\* A text of an elicitation answer is a sequence of pieces; the piece " " is white space.
RECURSIVE lstrip(_)
lstrip(text) == IF text # <<>> /\ Head(text) = " " THEN lstrip(Tail(text)) ELSE text

RECURSIVE rstrip(_)
rstrip(text) ==
    IF text # <<>> /\ text[Len(text)] = " " THEN rstrip(SubSeq(text, 1, Len(text) - 1)) ELSE text

\* str.strip()
strip(text) == rstrip(lstrip(text))

\* the texts an accepted permission prompt may carry
DataTexts ==
    {<<"Allow">>, <<"Allow for Session">>, <<"Deny">>, <<"Deny", " ">>, <<"Maybe">>, <<" ">>, <<>>}

\* what ctx.elicit may return: accepted with a text or with None, declined, cancelled
ElicitResults ==
    {Response("accept", FALSE, text) : text \in DataTexts}
        \cup {Response(action, TRUE, <<>>) : action \in {"accept", "decline", "cancel"}}

\* the secrets secure_api_request asks for
RequestNames == {"api_key", "endpoint"}

\* the module-level manager has been constructed and not yet initialized
InitManager ==
    /\ keyring = EmptyKeyring
    /\ secrets_storage = FALSE
    /\ session_permissions = {}
    /\ environ \in Environs
    /\ server_name = ""
    /\ rwp = NoFrame
    /\ fetch = NoFetch
    /\ dialog_task = NoTask
    /\ last = NoCall
    /\ stored_names = {}
    /\ granted = {}
    /\ cleared_grants = {}

\* MCPSecretsStorage.__init__: the vault is cleared when SECRETS_STORAGE_CLEAR is "true"
MCPSecretsStorage_init(kr) ==
    IF environ.SECRETS_STORAGE_CLEAR = "true"
    THEN _delete_all_secrets(kr)
    ELSE {[kr |-> kr, raised |-> FALSE]}

\* the record of a completed call of the manager: the operation and whether it raised
ManagerCall(op, raised) == [NoCall EXCEPT !.op = op, !.raised = raised]

\* faulty variant: a storage is bound and the session permissions are kept
initialize_keeps_permissions ==
    /\ \E o \in MCPSecretsStorage_init(keyring) :
           /\ keyring' = o.kr
           /\ last' = ManagerCall("initialize", o.raised)
           /\ stored_names' = {n \in stored_names : o.kr[n] # PyNone}
           /\ secrets_storage' = IF o.raised THEN secrets_storage ELSE TRUE
           /\ granted' = IF o.raised THEN granted ELSE {}
           /\ cleared_grants' = IF o.raised THEN cleared_grants ELSE {}
    /\ server_name' = "MCP Secrets Example"
    /\ UNCHANGED <<session_permissions, environ, rwp, fetch, dialog_task>>

\* initialize(server_name): a storage is bound, then the session permissions are reset
initialize ==
    /\ \E o \in MCPSecretsStorage_init(keyring) :
           /\ keyring' = o.kr
           /\ last' = ManagerCall("initialize", o.raised)
           /\ stored_names' = {n \in stored_names : o.kr[n] # PyNone}
           /\ secrets_storage' = IF o.raised THEN secrets_storage ELSE TRUE
           /\ session_permissions' = IF o.raised THEN session_permissions ELSE {}
           /\ granted' = IF o.raised THEN granted ELSE {}
           /\ cleared_grants' = IF o.raised THEN cleared_grants ELSE {}
    /\ server_name' = "MCP Secrets Example"
    /\ UNCHANGED <<environ, rwp, fetch, dialog_task>>

\* "Secrets storage not initialized": the call raises and changes nothing
NotInitialized(op) ==
    /\ ~secrets_storage
    /\ last' = ManagerCall(op, TRUE)
    /\ UNCHANGED <<keyring, secrets_storage, session_permissions, environ, cleared_grants, rwp, stored_names, granted, fetch, dialog_task, server_name>>

store_secret(secret_name, secret_value) ==
    \/ NotInitialized("store_secret")
    \/ /\ secrets_storage
       /\ \E o \in Storage_store_secret(keyring, secret_name, secret_value) :
              /\ keyring' = o.kr
              /\ last' = ManagerCall("store_secret", o.raised)
       /\ stored_names' = stored_names \cup {secret_name}
       /\ UNCHANGED <<secrets_storage, session_permissions, environ, cleared_grants, rwp, granted, fetch, dialog_task, server_name>>

\* faulty variant: clearing the secrets also forgets the session permissions
clear_secrets_forgets_permissions ==
    \/ NotInitialized("clear_secrets")
    \/ /\ secrets_storage
       /\ \E o \in Storage_clear_secrets(keyring) :
              /\ keyring' = o.kr
              /\ last' = ManagerCall("clear_secrets", o.raised)
              /\ stored_names' = {n \in stored_names : o.kr[n] # PyNone}
              /\ cleared_grants' =
                     cleared_grants \cup {n \in session_permissions :
                                              secret_exists(n) /\ o.kr[n] = PyNone}
       /\ session_permissions' = {}
       /\ UNCHANGED <<secrets_storage, environ, rwp, granted, fetch, dialog_task, server_name>>

clear_secrets ==
    \/ NotInitialized("clear_secrets")
    \/ /\ secrets_storage
       /\ \E o \in Storage_clear_secrets(keyring) :
              /\ keyring' = o.kr
              /\ last' = ManagerCall("clear_secrets", o.raised)
              /\ stored_names' = {n \in stored_names : o.kr[n] # PyNone}
              /\ cleared_grants' =
                     cleared_grants \cup {n \in session_permissions :
                                              secret_exists(n) /\ o.kr[n] = PyNone}
       /\ UNCHANGED <<secrets_storage, session_permissions, environ, rwp, granted, fetch, dialog_task, server_name>>

\* the name released by a one-time "Allow" in the call that the frame holds, or ""
ReleasedOnce(frame) ==
    IF frame.pc = "returned" /\ frame.prompted /\ strip(frame.response.data) = <<"Allow">>
    THEN frame.secret_name ELSE ""

\* faulty variant: ctx is required before the secret is looked up
retrieve_secret_with_permission_ctx_first(secret_name, ctx) ==
    /\ rwp.pc # "elicit"
    /\ LET frame == [NoFrame EXCEPT !.secret_name = secret_name, !.ctx = ctx,
                                    !.after_allow = ReleasedOnce(rwp),
                                    !.after_clear = secret_name \in cleared_grants,
                                    !.at_check = retrieve_secret(secret_name)]
           value == [frame EXCEPT !.pc = "returned", !.result = retrieve_secret(secret_name)]
       IN  rwp' = IF ~secrets_storage
                      THEN [frame EXCEPT !.pc = "raised", !.error = "Secrets storage not initialized"]
                  ELSE IF ~ctx /\ ~bypass_prompts /\ secret_name \notin session_permissions
                      THEN [frame EXCEPT !.pc = "raised",
                                         !.error = "Context required for permission elicitation"]
                  ELSE IF ~secret_exists(secret_name)
                      THEN [frame EXCEPT !.pc = "returned", !.result = PyNone]
                  ELSE IF bypass_prompts THEN value
                  ELSE IF secret_name \in session_permissions THEN value
                  ELSE [frame EXCEPT !.pc = "elicit", !.prompted = TRUE]
    /\ UNCHANGED <<keyring, secrets_storage, session_permissions, environ, cleared_grants, last, stored_names, granted, fetch, dialog_task, server_name>>

\* retrieve_secret_with_permission(secret_name, ctx), up to its return, its raise or
\* the await of ctx.elicit
retrieve_secret_with_permission(secret_name, ctx) ==
    /\ rwp.pc # "elicit"
    /\ LET frame == [NoFrame EXCEPT !.secret_name = secret_name, !.ctx = ctx,
                                    !.after_allow = ReleasedOnce(rwp),
                                    !.after_clear = secret_name \in cleared_grants,
                                    !.at_check = retrieve_secret(secret_name)]
           value == [frame EXCEPT !.pc = "returned", !.result = retrieve_secret(secret_name)]
       IN  rwp' = IF ~secrets_storage
                      THEN [frame EXCEPT !.pc = "raised", !.error = "Secrets storage not initialized"]
                  ELSE IF ~secret_exists(secret_name)
                      THEN [frame EXCEPT !.pc = "returned", !.result = PyNone]
                  ELSE IF bypass_prompts THEN value
                  ELSE IF secret_name \in session_permissions THEN value
                  ELSE IF ~ctx
                      THEN [frame EXCEPT !.pc = "raised",
                                         !.error = "Context required for permission elicitation"]
                  ELSE [frame EXCEPT !.pc = "elicit", !.prompted = TRUE]
    /\ UNCHANGED <<keyring, secrets_storage, session_permissions, environ, cleared_grants, last, stored_names, granted, fetch, dialog_task, server_name>>

\* faulty variant: only the choice is looked at, not the action of the result
permission_denied_choice_only(result) == strip(result.data) = <<"Deny">>

\* the two tests that raise "Permission denied for secret"
permission_denied(result) ==
    \/ result.action # "accept" \/ result.none \/ result.data = <<>>
    \/ strip(result.data) = <<"Deny">>

\* faulty variant: every choice that starts with "Allow" is cached
caches_permission_any_allow(choice) == choice \in {<<"Allow">>, <<"Allow for Session">>}

\* faulty variant: no choice is cached
caches_permission_never(choice) == FALSE

\* the choice that is recorded in session_permissions
caches_permission(choice) == choice = <<"Allow for Session">>

\* faulty variant: the value returned is the one the vault held at the existence check
retrieve_secret_with_permission_resume_stale(result) ==
    /\ rwp.pc = "elicit"
    /\ LET choice == strip(result.data)
       IN  IF permission_denied(result)
           THEN /\ rwp' = [rwp EXCEPT !.pc = "raised", !.response = result,
                                      !.error = "Permission denied for secret"]
                /\ UNCHANGED <<session_permissions, granted>>
           ELSE /\ session_permissions' =
                       IF caches_permission(choice)
                       THEN session_permissions \cup {rwp.secret_name} ELSE session_permissions
                /\ granted' =
                       IF result.data = <<"Allow for Session">>
                       THEN granted \cup {rwp.secret_name} ELSE granted
                /\ rwp' = [rwp EXCEPT !.pc = "returned", !.response = result,
                                      !.result = rwp.at_check]
    /\ UNCHANGED <<keyring, secrets_storage, environ, cleared_grants, last, stored_names, fetch, dialog_task, server_name>>

\* retrieve_secret_with_permission from the answer of ctx.elicit to its return or raise
retrieve_secret_with_permission_resume(result) ==
    /\ rwp.pc = "elicit"
    /\ LET choice == strip(result.data)
       IN  IF permission_denied(result)
           THEN /\ rwp' = [rwp EXCEPT !.pc = "raised", !.response = result,
                                      !.error = "Permission denied for secret"]
                /\ UNCHANGED <<session_permissions, granted>>
           ELSE /\ session_permissions' =
                       IF caches_permission(choice)
                       THEN session_permissions \cup {rwp.secret_name} ELSE session_permissions
                /\ granted' =
                       IF result.data = <<"Allow for Session">>
                       THEN granted \cup {rwp.secret_name} ELSE granted
                /\ rwp' = [rwp EXCEPT !.pc = "returned", !.response = result,
                                      !.result = retrieve_secret(rwp.secret_name)]
    /\ UNCHANGED <<keyring, secrets_storage, environ, cleared_grants, last, stored_names, fetch, dialog_task, server_name>>

(***************************************************************************)
(* SpecGate: the manager, from its construction.                           *)
(***************************************************************************)
NextGate ==
    \/ initialize
    \/ \E n \in RequestNames, c \in Contents : store_secret(n, c)
    \/ clear_secrets
    \/ \E n \in RequestNames, ctx \in BOOLEAN : retrieve_secret_with_permission(n, ctx)
    \/ \E result \in ElicitResults : retrieve_secret_with_permission_resume(result)

SpecGate == InitManager /\ [][NextGate]_vars

(***************************************************************************)
(* fetch_secrets and the dialog task.  The dialog task runs                *)
(* AsyncUIHandler.collect_secrets_async; it is scheduled by create_task    *)
(* and takes its steps while fetch_secrets is suspended at an await.       *)
(* A dict is a sequence of <<field, value>> pairs in the dict's order; a   *)
(* value is a text, "" when the field was left blank.                      *)
(***************************************************************************)
\* the values the dialog reports for a field
FieldValues == {"", "sk-123"}

\* the JSON objects the dialog may write: every dict over some of the requested fields
Dicts ==
    UNION {{[i \in 1..Len(order) |-> <<order[i], vals[i]>>] :
                vals \in [1..Len(order) -> FieldValues]} :
           order \in UNION {Orders(S) : S \in SUBSET RequestNames}}

\* what the dialog process leaves behind: its exit code, its output and its diagnostic
ProcessExits ==
    {[returncode |-> 0, valid_json |-> TRUE, stdout |-> d, stderr |-> ""] : d \in Dicts}
        \cup {[returncode |-> 0, valid_json |-> FALSE, stdout |-> <<>>, stderr |-> ""]}
        \cup {[returncode |-> 1, valid_json |-> FALSE, stdout |-> <<>>, stderr |-> ""]}
        \cup {[returncode |-> 2, valid_json |-> FALSE, stdout |-> <<>>, stderr |-> e] :
                  e \in {"", "binary crashed"}}

\* the actions an elicitation can end with
ElicitActions == {"accept", "decline", "cancel"}

\* faulty variant: every exit code other than 0 is taken as the user's cancellation
collect_secrets_async_nonzero_is_cancel(exit) ==
    IF exit.returncode # 0
    THEN [NoTask EXCEPT !.state = "done", !.returns = "None"]
    ELSE IF ~exit.valid_json
    THEN [NoTask EXCEPT !.state = "done", !.returns = "raise",
              !.error = "Invalid JSON from dialog"]
    ELSE [NoTask EXCEPT !.state = "done", !.returns = "dict", !.secrets = exit.stdout]

\* the value or the exception collect_secrets_async ends with, for a process exit
collect_secrets_async(exit) ==
    IF exit.returncode = 1
    THEN [NoTask EXCEPT !.state = "done", !.returns = "None"]
    ELSE IF exit.returncode # 0
    THEN [NoTask EXCEPT !.state = "done", !.returns = "raise",
              !.error = "Dialog error: UI dialog failed: "
                            \o (IF exit.stderr # "" THEN exit.stderr ELSE "Unknown error")]
    ELSE IF ~exit.valid_json
    THEN [NoTask EXCEPT !.state = "done", !.returns = "raise",
              !.error = "Invalid JSON from dialog"]
    ELSE [NoTask EXCEPT !.state = "done", !.returns = "dict", !.secrets = exit.stdout]

\* Task.cancel(): a task that has not finished is cancelled, a finished one is left as it is
task_cancel(task) ==
    IF task.state \in {"scheduled", "running"} THEN [task EXCEPT !.state = "cancelled"] ELSE task

\* faulty variant: only a cancelled confirmation ends the attempt
confirmation_rejected_cancel_only(action) == action = "cancel"

\* result.action != "accept"
confirmation_rejected(action) == action # "accept"

\* faulty variant: blank fields are written too
RECURSIVE store_each_with_blanks(_, _, _)
store_each_with_blanks(kr, secrets, stored) ==
    IF secrets = <<>>
    THEN {[kr |-> kr, stored |-> stored, raised |-> FALSE]}
    ELSE LET field_name == Head(secrets)[1]
             value == Head(secrets)[2]
         IN  IF ~secrets_storage
             THEN {[kr |-> kr, stored |-> stored, raised |-> TRUE]}
             ELSE UNION {store_each_with_blanks(o.kr, Tail(secrets), Append(stored, field_name)) :
                             o \in Storage_store_secret(kr, field_name, PyStr(value))}

\* the loop that stores the collected fields: the outcomes [kr, stored, raised]
RECURSIVE store_each(_, _, _)
store_each(kr, secrets, stored) ==
    IF secrets = <<>>
    THEN {[kr |-> kr, stored |-> stored, raised |-> FALSE]}
    ELSE LET field_name == Head(secrets)[1]
             value == Head(secrets)[2]
         IN  IF value = ""
             THEN store_each(kr, Tail(secrets), stored)
             ELSE IF ~secrets_storage
             THEN {[kr |-> kr, stored |-> stored, raised |-> TRUE]}
             ELSE UNION {store_each(o.kr, Tail(secrets), Append(stored, field_name)) :
                             o \in Storage_store_secret(kr, field_name, PyStr(value))}

\* len([v for v in secrets.values() if v])
stored_count(secrets) == Cardinality({i \in 1..Len(secrets) : secrets[i][2] # ""})

\* fetch_secrets up to its first await: the template is built and the dialog task created
fetch_start ==
    /\ fetch.pc \in {"idle", "returned", "raised"}
    /\ IF server_name = ""
       THEN /\ fetch' = [NoFetch EXCEPT !.pc = "raised", !.error = "AttributeError: server_name"]
            /\ UNCHANGED dialog_task
       ELSE /\ fetch' = [NoFetch EXCEPT !.pc = "info"]
            /\ dialog_task' = [NoTask EXCEPT !.state = "scheduled"]
    /\ UNCHANGED <<keyring, secrets_storage, session_permissions, environ, cleared_grants, server_name, rwp,
                   last, stored_names, granted>>

\* the two ctx.info calls are done and ctx.elicit is called: the confirmation is issued
fetch_elicit ==
    /\ fetch.pc = "info"
    /\ fetch' = [fetch EXCEPT !.pc = "elicit"]
    /\ UNCHANGED <<keyring, secrets_storage, session_permissions, environ, cleared_grants, server_name, rwp,
                   dialog_task, last, stored_names, granted>>

\* the dialog task's first step: the process is spawned, or the spawn fails
dialog_start ==
    /\ dialog_task.state = "scheduled"
    /\ fetch.pc \in {"info", "elicit", "await"}
    /\ \/ dialog_task' = [dialog_task EXCEPT !.state = "running"]
       \/ dialog_task' = [dialog_task EXCEPT !.state = "done", !.returns = "raise",
                              !.error = "Dialog binary not found"]
    /\ UNCHANGED <<keyring, secrets_storage, session_permissions, environ, cleared_grants, server_name, rwp,
                   fetch, last, stored_names, granted>>

\* the dialog process has exited: communicate() returns and the task finishes
dialog_exit(exit) ==
    /\ dialog_task.state = "running"
    /\ dialog_task' = collect_secrets_async(exit)
    /\ UNCHANGED <<keyring, secrets_storage, session_permissions, environ, cleared_grants, server_name, rwp,
                   fetch, last, stored_names, granted>>

\* faulty variant: the CancelledError of the awaited task is not caught
fetch_finish_cancel_uncaught(frame) ==
    IF dialog_task.state = "cancelled"
    THEN /\ fetch' = [frame EXCEPT !.pc = "raised", !.error = "CancelledError"]
         /\ UNCHANGED <<keyring, last, stored_names>>
    ELSE IF dialog_task.returns = "raise"
    THEN /\ fetch' = [frame EXCEPT !.pc = "raised", !.error = dialog_task.error]
         /\ UNCHANGED <<keyring, last, stored_names>>
    ELSE IF dialog_task.returns = "None" \/ dialog_task.secrets = <<>>
    THEN /\ fetch' = [frame EXCEPT !.pc = "returned", !.status = FALSE,
                                   !.message = "Dialog was cancelled by user."]
         /\ UNCHANGED <<keyring, last, stored_names>>
    ELSE \E o \in store_each(keyring, dialog_task.secrets, <<>>) :
             /\ keyring' = o.kr
             /\ stored_names' = stored_names \cup SeqToSet(o.stored)
             /\ last' = IF o.stored = <<>> /\ ~o.raised THEN last
                        ELSE ManagerCall("store_secret", o.raised)
             /\ fetch' =
                    IF o.raised
                    THEN [frame EXCEPT !.pc = "raised", !.stored = o.stored,
                                       !.error = "Secrets storage not initialized"]
                    ELSE [frame EXCEPT !.pc = "returned", !.stored = o.stored, !.status = TRUE,
                              !.message = "Successfully stored "
                                              \o ToString(stored_count(dialog_task.secrets))
                                              \o " credentials."]

\* fetch_secrets from the result of the finished dialog task to its return or raise
fetch_finish(frame) ==
    IF dialog_task.state = "cancelled"
    THEN /\ fetch' = [frame EXCEPT !.pc = "returned", !.status = FALSE,
                                   !.message = "Dialog cancelled."]
         /\ UNCHANGED <<keyring, last, stored_names>>
    ELSE IF dialog_task.returns = "raise"
    THEN /\ fetch' = [frame EXCEPT !.pc = "raised", !.error = dialog_task.error]
         /\ UNCHANGED <<keyring, last, stored_names>>
    ELSE IF dialog_task.returns = "None" \/ dialog_task.secrets = <<>>
    THEN /\ fetch' = [frame EXCEPT !.pc = "returned", !.status = FALSE,
                                   !.message = "Dialog was cancelled by user."]
         /\ UNCHANGED <<keyring, last, stored_names>>
    ELSE \E o \in store_each(keyring, dialog_task.secrets, <<>>) :
             /\ keyring' = o.kr
             /\ stored_names' = stored_names \cup SeqToSet(o.stored)
             /\ last' = IF o.stored = <<>> /\ ~o.raised THEN last
                        ELSE ManagerCall("store_secret", o.raised)
             /\ fetch' =
                    IF o.raised
                    THEN [frame EXCEPT !.pc = "raised", !.stored = o.stored,
                                       !.error = "Secrets storage not initialized"]
                    ELSE [frame EXCEPT !.pc = "returned", !.stored = o.stored, !.status = TRUE,
                              !.message = "Successfully stored "
                                              \o ToString(stored_count(dialog_task.secrets))
                                              \o " credentials."]

\* the confirmation is answered: a rejection cancels the dialog task and returns; an
\* acceptance goes on to the dialog task's result, at once when the task has finished
fetch_answer(action) ==
    /\ fetch.pc = "elicit"
    /\ LET frame == [fetch EXCEPT !.action = action, !.task_at_answer = dialog_task.state]
       IN  IF confirmation_rejected(action)
           THEN /\ dialog_task' = task_cancel(dialog_task)
                /\ fetch' = [frame EXCEPT !.pc = "returned", !.status = FALSE,
                                          !.message = "Secrets fetch cancelled by user."]
                /\ UNCHANGED <<keyring, last, stored_names>>
           ELSE IF dialog_task.state \in {"done", "cancelled"}
           THEN fetch_finish(frame) /\ UNCHANGED dialog_task
           ELSE /\ fetch' = [frame EXCEPT !.pc = "await"]
                /\ UNCHANGED <<keyring, dialog_task, last, stored_names>>
    /\ UNCHANGED <<secrets_storage, session_permissions, environ, cleared_grants, server_name, rwp, granted>>

\* the dialog task finishes while fetch_secrets awaits it
fetch_resume ==
    /\ fetch.pc = "await"
    /\ dialog_task.state \in {"done", "cancelled"}
    /\ fetch_finish(fetch)
    /\ UNCHANGED <<secrets_storage, session_permissions, environ, cleared_grants, server_name, rwp, dialog_task,
                   granted>>

(***************************************************************************)
(* SpecFetch: fetch_secrets with its dialog task, beside the manager's     *)
(* store_secret, from the construction of the manager.                     *)
(***************************************************************************)
InitFetch == InitManager /\ environ.MCP_BYPASS_SECRET_USE_CONFIRM = "false"

NextFetch ==
    \/ initialize
    \/ \E n \in RequestNames, c \in Contents : store_secret(n, c)
    \/ fetch_start
    \/ fetch_elicit
    \/ dialog_start
    \/ \E exit \in ProcessExits : dialog_exit(exit)
    \/ \E action \in ElicitActions : fetch_answer(action)
    \/ fetch_resume

SpecFetch == InitFetch /\ [][NextFetch]_vars

(***************************************************************************)
(* SpecFetchLive: SpecFetch with the fairness the event loop gives: a      *)
(* coroutine that can take its next step takes it.  The exit of the dialog *)
(* process and the answer to the confirmation are the user's, and nothing  *)
(* obliges them to happen.                                                 *)
(***************************************************************************)
SpecFetchLive ==
    /\ InitFetch /\ [][NextFetch]_vars
    /\ WF_vars(fetch_elicit) /\ WF_vars(dialog_start) /\ WF_vars(fetch_resume)

(***************************************************************************)
(* SpecFetchCancel: SpecFetch with a dialog task that may be cancelled by  *)
(* something other than fetch_secrets (the owner of the event loop), at    *)
(* any moment from its creation to the moment fetch_secrets has its result.*)
(***************************************************************************)
\* Task.cancel() called on the dialog task from outside fetch_secrets
dialog_cancel ==
    /\ fetch.pc \in {"info", "elicit", "await"}
    /\ dialog_task.state \in {"scheduled", "running"}
    /\ dialog_task' = task_cancel(dialog_task)
    /\ UNCHANGED <<keyring, secrets_storage, session_permissions, environ, cleared_grants, server_name, rwp,
                   fetch, last, stored_names, granted>>

NextFetchCancel ==
    \/ initialize
    \/ \E n \in RequestNames, c \in Contents : store_secret(n, c)
    \/ fetch_start
    \/ fetch_elicit
    \/ dialog_start
    \/ \E exit \in ProcessExits : dialog_exit(exit)
    \/ dialog_cancel
    \/ \E action \in ElicitActions : fetch_answer(action)
    \/ fetch_resume

SpecFetchCancel == InitFetch /\ [][NextFetchCancel]_vars

(***************************************************************************)
(* SpecSession: everything one manager does between and across its         *)
(* initializations, with the bypass flag off: the permission check with    *)
(* its prompt, store_secret, clear_secrets and fetch_secrets, each able to *)
(* run while another one is suspended at an await.                         *)
(***************************************************************************)
\* the answers to the permission prompt: the three choices, and a declined prompt
SessionResults ==
    {Response("accept", FALSE, text) : text \in {<<"Allow">>, <<"Allow for Session">>, <<"Deny">>}}
        \cup {Response("decline", TRUE, <<>>)}

\* the exits of the dialog process: api_key filled in and endpoint left blank, or
\* the dialog cancelled by the user
SessionExits ==
    {exit \in ProcessExits :
         \/ exit.returncode = 1
         \/ exit.returncode = 0 /\ exit.valid_json
                /\ exit.stdout = <<(<<"api_key", "sk-123">>), (<<"endpoint", "">>)>>}

InitSession == InitFetch /\ environ.SECRETS_STORAGE_CLEAR = "false"

NextSession ==
    \/ initialize
    \/ \E n \in RequestNames, c \in Contents : store_secret(n, c)
    \/ clear_secrets
    \/ \E n \in RequestNames, ctx \in BOOLEAN : retrieve_secret_with_permission(n, ctx)
    \/ \E result \in SessionResults : retrieve_secret_with_permission_resume(result)
    \/ fetch_start
    \/ fetch_elicit
    \/ dialog_start
    \/ \E exit \in SessionExits : dialog_exit(exit)
    \/ \E action \in ElicitActions : fetch_answer(action)
    \/ fetch_resume

SpecSession == InitSession /\ [][NextSession]_vars

(***************************************************************************)
(* fetch_secrets on a vault whose primitive may fail while the collected   *)
(* fields are stored.                                                      *)
(***************************************************************************)
\* faulty variant: a write that raises is skipped and the loop goes on
RECURSIVE store_each_fault_skip(_, _, _, _)
store_each_fault_skip(kr, fault, secrets, stored) ==
    IF secrets = <<>>
    THEN {[kr |-> kr, stored |-> stored, raised |-> FALSE]}
    ELSE LET field_name == Head(secrets)[1]
             value == Head(secrets)[2]
         IN  IF value = ""
             THEN store_each_fault_skip(kr, fault, Tail(secrets), stored)
             ELSE IF ~secrets_storage
             THEN {[kr |-> kr, stored |-> stored, raised |-> TRUE]}
             ELSE UNION {IF o.raised
                         THEN store_each_fault_skip(o.kr, fault, Tail(secrets), stored)
                         ELSE store_each_fault_skip(o.kr, fault, Tail(secrets),
                                                    Append(stored, field_name)) :
                             o \in Storage_store_secret_fault(kr, fault, field_name, PyStr(value))}

\* the loop that stores the collected fields, one after the other in the dict's
\* order; the first store_secret that raises ends it
RECURSIVE store_each_fault(_, _, _, _)
store_each_fault(kr, fault, secrets, stored) ==
    IF secrets = <<>>
    THEN {[kr |-> kr, stored |-> stored, raised |-> FALSE]}
    ELSE LET field_name == Head(secrets)[1]
             value == Head(secrets)[2]
         IN  IF value = ""
             THEN store_each_fault(kr, fault, Tail(secrets), stored)
             ELSE IF ~secrets_storage
             THEN {[kr |-> kr, stored |-> stored, raised |-> TRUE]}
             ELSE UNION {IF o.raised
                         THEN {[kr |-> o.kr, stored |-> stored, raised |-> TRUE]}
                         ELSE store_each_fault(o.kr, fault, Tail(secrets),
                                               Append(stored, field_name)) :
                             o \in Storage_store_secret_fault(kr, fault, field_name, PyStr(value))}

\* fetch_secrets from the result of the finished dialog task to its return or raise
fetch_finish_fault(frame, fault) ==
    IF dialog_task.state = "cancelled"
    THEN /\ fetch' = [frame EXCEPT !.pc = "returned", !.status = FALSE,
                                   !.message = "Dialog cancelled."]
         /\ UNCHANGED <<keyring, last, stored_names>>
    ELSE IF dialog_task.returns = "raise"
    THEN /\ fetch' = [frame EXCEPT !.pc = "raised", !.error = dialog_task.error]
         /\ UNCHANGED <<keyring, last, stored_names>>
    ELSE IF dialog_task.returns = "None" \/ dialog_task.secrets = <<>>
    THEN /\ fetch' = [frame EXCEPT !.pc = "returned", !.status = FALSE,
                                   !.message = "Dialog was cancelled by user."]
         /\ UNCHANGED <<keyring, last, stored_names>>
    ELSE \E o \in store_each_fault(keyring, fault, dialog_task.secrets, <<>>) :
             /\ keyring' = o.kr
             /\ stored_names' = stored_names \cup Valued(o.kr)
             /\ last' = IF o.kr = keyring /\ ~o.raised THEN last
                        ELSE ManagerCall("store_secret", o.raised)
             /\ fetch' =
                    IF o.raised
                    THEN [frame EXCEPT !.pc = "raised", !.stored = o.stored,
                              !.error = IF secrets_storage THEN "keyring error"
                                        ELSE "Secrets storage not initialized"]
                    ELSE [frame EXCEPT !.pc = "returned", !.stored = o.stored, !.status = TRUE,
                              !.message = "Successfully stored "
                                              \o ToString(stored_count(dialog_task.secrets))
                                              \o " credentials."]

fetch_answer_fault(action, fault) ==
    /\ fetch.pc = "elicit"
    /\ LET frame == [fetch EXCEPT !.action = action, !.task_at_answer = dialog_task.state]
       IN  IF confirmation_rejected(action)
           THEN /\ dialog_task' = task_cancel(dialog_task)
                /\ fetch' = [frame EXCEPT !.pc = "returned", !.status = FALSE,
                                          !.message = "Secrets fetch cancelled by user."]
                /\ UNCHANGED <<keyring, last, stored_names>>
           ELSE IF dialog_task.state \in {"done", "cancelled"}
           THEN fetch_finish_fault(frame, fault) /\ UNCHANGED dialog_task
           ELSE /\ fetch' = [frame EXCEPT !.pc = "await"]
                /\ UNCHANGED <<keyring, dialog_task, last, stored_names>>
    /\ UNCHANGED <<secrets_storage, session_permissions, environ, cleared_grants, server_name, rwp, granted>>

fetch_resume_fault(fault) ==
    /\ fetch.pc = "await"
    /\ dialog_task.state \in {"done", "cancelled"}
    /\ fetch_finish_fault(fetch, fault)
    /\ UNCHANGED <<secrets_storage, session_permissions, environ, cleared_grants, server_name, rwp, dialog_task,
                   granted>>

(***************************************************************************)
(* SpecFetchFault: SpecFetch with a vault whose primitive may fail during  *)
(* the writes of fetch_secrets.                                            *)
(***************************************************************************)
NextFetchFault ==
    \/ initialize
    \/ \E n \in RequestNames, c \in Contents : store_secret(n, c)
    \/ fetch_start
    \/ fetch_elicit
    \/ dialog_start
    \/ \E exit \in ProcessExits : dialog_exit(exit)
    \/ \E action \in ElicitActions, fault \in Faults : fetch_answer_fault(action, fault)
    \/ \E fault \in Faults : fetch_resume_fault(fault)

SpecFetchFault == InitFetch /\ [][NextFetchFault]_vars

(***************************************************************************)
(* Properties of the store.                                                *)
(***************************************************************************)
\* C1: after any sequence of store_secret and delete_secret calls from an
\* empty vault, list_secrets() is exactly the set of names stored and not
\* subsequently deleted.
C1_ListIsStoredNotDeleted == list_secrets = stored_names

\* C1 witness: both names were stored and listed, and one of them has just been deleted
C1_Witness ==
    /\ last.op = "delete_secret" /\ ~last.raised
    /\ last.prev.op = "store_secret"
    /\ Cardinality(last.listed) = 2
    /\ Cardinality(stored_names) = 1

\* C2: retrieve_secret(name) right after store_secret(name, v) with v a str
\* returns v, and right after delete_secret(name) it returns None.
C2_RoundTrip ==
    /\ (last.op = "store_secret" /\ ~last.raised /\ last.content.type = "str")
           => retrieve_secret(last.secret_name) = last.content
    /\ last.op = "delete_secret" => retrieve_secret(last.secret_name) = PyNone

\* C2 witness: a stored name has just been deleted, right after a store
C2_Witness ==
    /\ last.op = "delete_secret" /\ ~last.raised
    /\ last.prev.op = "store_secret"

\* C3: clear_secrets() on an identity that holds its listed secrets returns,
\* leaves list_secrets() empty and every previously listed name absent; a
\* store_secret(name, v) right after it leaves the vault as the same call
\* leaves an empty one: list_secrets() = {name} and retrieve_secret(name) = v.
C3_ClearThenFresh ==
    /\ (last.op = "clear_secrets" /\ last.held)
           => /\ ~last.raised
              /\ list_secrets = {}
              /\ \A n \in last.listed : retrieve_secret(n) = PyNone
    /\ (last.op = "store_secret" /\ last.prev.op = "clear_secrets" /\ ~last.prev.raised)
           => /\ list_secrets = {last.secret_name}
              /\ last.content.type = "str" => retrieve_secret(last.secret_name) = last.content
              /\ \A n \in Names \ {last.secret_name} : retrieve_secret(n) = PyNone
              /\ keyring \in {o.kr : o \in Storage_store_secret(EmptyKeyring, last.secret_name, last.content)}

\* C3 witness: a store right after a clear_secrets() that removed two secrets
C3_Witness ==
    /\ last.op = "store_secret" /\ last.prev.op = "clear_secrets" /\ ~last.prev.raised
    /\ Cardinality(last.prev.listed) = 2

\* C4: clear_secrets() tolerates a listed name whose value is already missing
\* from the vault: it does not raise, and afterwards the index entry is gone
\* and list_secrets() is empty.
C4_ClearToleratesMissing ==
    last.op = "clear_secrets"
        => /\ ~last.raised
           /\ get_password(keyring, index_username) = PyNone
           /\ list_secrets = {}

\* C4 case: clear_secrets() was called while a listed name had no value
C4_Witness == last.op = "clear_secrets" /\ ~last.held /\ last.listed # {}

(***************************************************************************)
(* Properties of the permission check.                                     *)
(***************************************************************************)
\* the bypass flag is active
BypassActive == environ.MCP_BYPASS_SECRET_USE_CONFIRM \in {"true", "TRUE"}

Accepted(result, text) == result.action = "accept" /\ ~result.none /\ result.data = text

\* C5: when the prompt of a call is accepted with "Allow", the call returns the
\* value the vault holds and the session permissions stay as they were; the next
\* call for the same secret (still existing, ctx given, no bypass) prompts again.
C5_AllowOnce ==
    [][/\ \A result \in ElicitResults :
              (retrieve_secret_with_permission_resume(result) /\ Accepted(result, <<"Allow">>))
                  => /\ rwp'.pc = "returned"
                     /\ rwp'.result = retrieve_secret(rwp.secret_name)
                     /\ session_permissions' = session_permissions
       /\ \A n \in RequestNames :
              (/\ retrieve_secret_with_permission(n, TRUE)
               /\ ReleasedOnce(rwp) = n /\ secret_exists(n) /\ ~BypassActive)
                  => rwp'.pc = "elicit" /\ rwp'.prompted]_vars

\* C5 witness: a prompt is pending for the secret that the call before released on "Allow"
C5_Witness ==
    /\ rwp.pc = "elicit" /\ rwp.after_allow = rwp.secret_name
    /\ retrieve_secret(rwp.secret_name) # PyNone

\* C6: the call answered "Allow for Session" returns the value the vault holds, and
\* every later call for that secret, while it exists and until initialize(), returns
\* the stored value without a prompt.
C6_AllowForSession ==
    [][/\ \A result \in ElicitResults :
              (/\ retrieve_secret_with_permission_resume(result)
               /\ Accepted(result, <<"Allow for Session">>))
                  => /\ rwp'.pc = "returned"
                     /\ rwp'.result = retrieve_secret(rwp.secret_name)
       /\ \A n \in RequestNames, ctx \in BOOLEAN :
              (retrieve_secret_with_permission(n, ctx) /\ n \in granted /\ secret_exists(n))
                  => /\ rwp'.pc = "returned" /\ ~rwp'.prompted
                     /\ rwp'.result = retrieve_secret(n) /\ rwp'.result # PyNone]_vars

\* C6 witness: a call without ctx for a secret granted for the session has returned
\* its value, no prompt issued
C6_Witness ==
    /\ rwp.pc = "returned" /\ ~rwp.prompted /\ ~rwp.ctx
    /\ rwp.secret_name \in granted /\ ~BypassActive
    /\ rwp.result # PyNone

\* C7: when the prompt is answered "Deny", declined or cancelled, the call raises
\* the permission-denied error, returns no value and leaves the session
\* permissions as they were.
C7_Denied ==
    [][\A result \in ElicitResults :
           (/\ retrieve_secret_with_permission_resume(result)
            /\ (result.action \in {"decline", "cancel"} \/ Accepted(result, <<"Deny">>)))
               => /\ rwp'.pc = "raised"
                  /\ rwp'.error = "Permission denied for secret"
                  /\ rwp'.result = PyNone
                  /\ session_permissions' = session_permissions]_vars

\* C7 witness: a call was answered "Deny" while another secret is granted for the session
C7_Witness ==
    /\ rwp.pc = "raised" /\ Accepted(rwp.response, <<"Deny">>)
    /\ session_permissions # {}
    /\ retrieve_secret(rwp.secret_name) # PyNone

\* C8: a call that prompted releases a value only if the prompt was accepted with
\* exactly "Allow" or "Allow for Session"; any other accepted text is a denial.
C8_OnlyAllowReleases ==
    (rwp.prompted /\ rwp.pc = "returned")
        => \/ Accepted(rwp.response, <<"Allow">>)
           \/ Accepted(rwp.response, <<"Allow for Session">>)

\* C8 case: a prompt was accepted with a text that is none of the three choices
C8_Witness ==
    /\ rwp.prompted /\ rwp.pc # "elicit"
    /\ rwp.response.action = "accept" /\ rwp.response.data = <<"Maybe">>

\* C9: with the bypass flag active, a call for an existing secret issues no prompt,
\* returns the stored value whatever ctx and the session permissions are, and
\* leaves the session permissions as they were.
C9_Bypass ==
    [][\A n \in RequestNames, ctx \in BOOLEAN :
           (retrieve_secret_with_permission(n, ctx) /\ BypassActive /\ secret_exists(n))
               => /\ rwp'.pc = "returned" /\ ~rwp'.prompted
                  /\ rwp'.result = retrieve_secret(n) /\ rwp'.result # PyNone
                  /\ session_permissions' = session_permissions]_vars

\* C9 witness: under bypass a call without ctx and without a session grant returned the value
C9_Witness ==
    /\ BypassActive /\ rwp.pc = "returned" /\ ~rwp.ctx
    /\ rwp.secret_name \notin session_permissions
    /\ rwp.result # PyNone

(***************************************************************************)
(* Properties of fetch_secrets.                                            *)
(***************************************************************************)
\* the confirmation of the attempt in the frame was declined or cancelled
Rejected == fetch.pc = "returned" /\ fetch.action \in {"decline", "cancel"}

\* C10 as claimed: whenever the confirmation is declined or cancelled, the dialog
\* task is cancelled, the outcome is (False, cancelled by user) and the attempt
\* stored nothing, also when the dialog had already exited with a result.
C10_RejectedCancelsTask ==
    Rejected
        => /\ dialog_task.state = "cancelled"
           /\ ~fetch.status /\ fetch.message = "Secrets fetch cancelled by user."
           /\ fetch.stored = <<>>

\* C10 as amended: whenever the confirmation is declined or cancelled, cancel() is
\* called on the dialog task, which cancels it unless it had already finished (then
\* it stays finished and its result is never read); the outcome is (False, cancelled
\* by user), and the step stores nothing and leaves the vault as it was.
C10_RejectedEndsAttempt ==
    /\ [](Rejected
              => /\ IF fetch.task_at_answer = "done"
                    THEN dialog_task.state = "done"
                    ELSE dialog_task.state = "cancelled"
                 /\ ~fetch.status /\ fetch.message = "Secrets fetch cancelled by user."
                 /\ fetch.stored = <<>>)
    /\ [][\A action \in {"decline", "cancel"} : fetch_answer(action) => keyring' = keyring]_vars

\* C10 witness: the confirmation was declined after the dialog had exited with a
\* non-empty result
C10_Witness ==
    /\ Rejected /\ fetch.action = "decline"
    /\ fetch.task_at_answer = "done" /\ dialog_task.returns = "dict"
    /\ stored_count(dialog_task.secrets) = 2


\* the step in which fetch_secrets, its confirmation accepted, gets the result of
\* the dialog task and runs to its return or raise
FetchFinishes == (fetch_answer("accept") \/ fetch_resume) /\ fetch'.pc # "await"

\* the fields of a collected dict whose value is not blank, in the dict's order
NonBlank(secrets) == SelectSeq(secrets, LAMBDA pair : pair[2] # "")

FieldNames(secrets) == [i \in 1..Len(secrets) |-> secrets[i][1]]

\* C11: when the confirmation is accepted and the dialog returned a dict with at
\* least one non-blank value, fetch_secrets stores exactly the non-blank fields,
\* leaves the stored value of every blank field (and of every other name) as it
\* was, and returns success with a count equal to the number of fields stored.
C11_StoresNonBlank ==
    [][(/\ FetchFinishes
        /\ dialog_task.state = "done" /\ dialog_task.returns = "dict"
        /\ stored_count(dialog_task.secrets) > 0)
           => LET secrets == dialog_task.secrets
              IN  /\ fetch'.pc = "returned" /\ fetch'.status
                  /\ fetch'.stored = FieldNames(NonBlank(secrets))
                  /\ \A i \in 1..Len(secrets) :
                         IF secrets[i][2] # ""
                         THEN /\ Storage_retrieve_secret(keyring', secrets[i][1]) = PyStr(secrets[i][2])
                              /\ secrets[i][1] \in Storage_list_secrets(keyring')
                         ELSE keyring'[secrets[i][1]] = keyring[secrets[i][1]]
                  /\ \A n \in Names \ SeqToSet(FieldNames(secrets)) : keyring'[n] = keyring[n]
                  /\ fetch'.message = "Successfully stored " \o ToString(Len(fetch'.stored))
                                          \o " credentials."]_vars

\* C11 witness: api_key was collected and stored, endpoint was left blank and still
\* holds the value stored before
C11_Witness ==
    /\ fetch.pc = "returned" /\ fetch.status /\ fetch.stored = <<"api_key">>
    /\ dialog_task.secrets = <<(<<"api_key", "sk-123">>), (<<"endpoint", "">>)>>
    /\ retrieve_secret("api_key") = PyStr("sk-123")
    /\ retrieve_secret("endpoint") = PyStr("30")

\* the dialog task ended with an empty result: None, or a dict with no non-blank value
EmptyResult ==
    /\ dialog_task.state = "done"
    /\ \/ dialog_task.returns = "None"
       \/ dialog_task.returns = "dict" /\ stored_count(dialog_task.secrets) = 0

\* C12: when the confirmation is accepted and the result of the dialog is empty
\* (None, or every field blank), fetch_secrets returns a cancellation (status
\* False), never a success, and stores nothing.
C12_EmptyIsCancellation ==
    (fetch.action = "accept" /\ fetch.pc \in {"returned", "raised"} /\ EmptyResult)
        => fetch.pc = "returned" /\ ~fetch.status /\ fetch.stored = <<>>

\* C12 case: the confirmation was accepted and the dialog returned two fields, both blank
C12_Witness ==
    /\ fetch.action = "accept" /\ fetch.pc = "returned"
    /\ dialog_task.state = "done" /\ dialog_task.returns = "dict"
    /\ Len(dialog_task.secrets) = 2 /\ stored_count(dialog_task.secrets) = 0

\* C13: when the dialog process exits with a code other than 0 and 1, the task ends
\* with an error that carries the stderr text and the pending confirmation stays
\* pending; once the confirmation is accepted, fetch_secrets raises that error and
\* stores nothing.
C13_CollectionFailed ==
    [][/\ \A exit \in ProcessExits :
              (dialog_exit(exit) /\ exit.returncode \notin {0, 1})
                  => /\ dialog_task'.returns = "raise"
                     /\ exit.stderr # ""
                            => dialog_task'.error = "Dialog error: UI dialog failed: " \o exit.stderr
                     /\ fetch' = fetch
       /\ (/\ FetchFinishes
           /\ dialog_task.state = "done" /\ dialog_task.returns = "raise")
              => /\ fetch'.pc = "raised" /\ ~fetch'.status
                 /\ fetch'.error = dialog_task.error
                 /\ fetch'.stored = <<>>
                 /\ keyring' = keyring]_vars

\* C13 witness: the process exited with "binary crashed" on stderr while the
\* confirmation was pending, and the accepted attempt raised that diagnostic
C13_Witness ==
    /\ fetch.pc = "raised" /\ fetch.action = "accept" /\ fetch.task_at_answer = "done"
    /\ fetch.error = "Dialog error: UI dialog failed: binary crashed"

\* the user cancelled the dialog (exit code 1) and the confirmation is still pending
DialogCancelledPromptPending ==
    /\ fetch.pc = "elicit"
    /\ dialog_task.state = "done" /\ dialog_task.returns = "None"

\* C14: if the user cancels the dialog (exit code 1) while the confirmation is
\* pending, the wait of fetch_secrets on the confirmation eventually ends.
C14_WaitTerminates == DialogCancelledPromptPending ~> fetch.pc # "elicit"

\* C14 case: the dialog was cancelled by the user while the confirmation is pending
C14_Witness == DialogCancelledPromptPending

\* the dialog process has been spawned
ProcessSpawned ==
    \/ dialog_task.state = "running"
    \/ dialog_task.state = "done" /\ dialog_task.error # "Dialog binary not found"

\* C15: the confirmation is never issued while the dialog process has not been
\* started: whenever fetch_secrets waits on the confirmation, the process has been
\* spawned.
C15_CollectorStartedFirst == fetch.pc = "elicit" => ProcessSpawned

\* C15 case: the confirmation is pending and the spawn of the dialog process failed
C15_Witness ==
    /\ fetch.pc = "elicit"
    /\ dialog_task.state = "done" /\ dialog_task.error = "Dialog binary not found"


(***************************************************************************)
(* Properties of the index.                                                *)
(***************************************************************************)
\* C16: after any sequence of store_secret, delete_secret and clear_secrets the
\* index entry never holds an empty set: when no secret remains the entry is
\* absent from the vault, and list_secrets() on an absent entry is empty.
C16_NoEmptyIndex ==
    /\ get_password(keyring, index_username) # PyNone => _get_secret_index(keyring) # {}
    /\ (\A n \in Names : retrieve_secret(n) = PyNone)
           => get_password(keyring, index_username) = PyNone
    /\ get_password(keyring, index_username) = PyNone => list_secrets = {}

\* C16 witness: the only listed secret has just been deleted and the index entry is gone
C16_Witness ==
    /\ last.op = "delete_secret" /\ ~last.raised
    /\ last.listed = {last.secret_name}
    /\ get_password(keyring, index_username) = PyNone


\* C17: in every state reached by store_secret, delete_secret and clear_secrets,
\* also after a primitive call failed partway through an operation, every name
\* in the index has a value in the vault.  (The operations run without
\* suspending, so no state has a store in progress.)
C17_IndexedNamesHeld == Held(keyring)

\* C17 case: a delete_secret of a listed name raised after it had deleted the value
C17_Witness ==
    /\ last.op = "delete_secret" /\ last.raised /\ last.held
    /\ last.secret_name \in last.listed
    /\ retrieve_secret(last.secret_name) = PyNone


(***************************************************************************)
(* Properties of the permission check: missing secrets, initialization.    *)
(***************************************************************************)
\* C18: on an initialized manager, a call for a name that the index does not list
\* returns None: no prompt is issued and no error raised, with or without ctx,
\* whatever the bypass flag and the session permissions are, and nothing changes
\* but the call's own frame.
C18_NotFoundFirst ==
    [][\A n \in RequestNames, ctx \in BOOLEAN :
           (/\ retrieve_secret_with_permission(n, ctx)
            /\ secrets_storage /\ n \notin Storage_list_secrets(keyring))
               => /\ rwp'.pc = "returned" /\ rwp'.result = PyNone
                  /\ ~rwp'.prompted /\ rwp'.error = ""
                  /\ UNCHANGED <<keyring, secrets_storage, session_permissions, environ>>]_vars

\* C18 witness: a call without ctx, bypass inactive, returned None for a name that is
\* granted for the session and no longer listed
C18_Witness ==
    /\ rwp.pc = "returned" /\ rwp.result = PyNone /\ ~rwp.ctx /\ ~rwp.prompted
    /\ rwp.secret_name \in session_permissions
    /\ rwp.secret_name \notin list_secrets
    /\ secrets_storage /\ ~BypassActive

\* C19: initialize() leaves the session permissions empty, and a call (ctx given,
\* bypass inactive) for an existing secret that has not been answered "Allow for
\* Session" since the last initialize() issues a prompt, whatever was granted
\* before that initialize().
C19_InitializeResets ==
    [][/\ (initialize /\ ~last'.raised) => session_permissions' = {}
       /\ \A n \in RequestNames :
              (/\ retrieve_secret_with_permission(n, TRUE)
               /\ n \notin granted /\ secret_exists(n) /\ ~BypassActive)
                  => rwp'.pc = "elicit" /\ rwp'.prompted]_vars

\* C19 witness: the last call was answered "Allow for Session", the manager has been
\* initialized again since, and the secret, still stored, is no longer granted
C19_Witness ==
    /\ last.op = "initialize" /\ ~last.raised
    /\ rwp.pc = "returned" /\ Accepted(rwp.response, <<"Allow for Session">>)
    /\ session_permissions = {}
    /\ secret_exists(rwp.secret_name) /\ ~BypassActive


(***************************************************************************)
(* Properties of fetch_secrets when a write fails.                         *)
(***************************************************************************)
\* the step in which fetch_secrets, its confirmation accepted, gets the result of
\* the dialog task and runs to its return or raise, on a vault that may fail
FetchFinishesFault ==
    /\ \E fault \in Faults : fetch_answer_fault("accept", fault) \/ fetch_resume_fault(fault)
    /\ fetch'.pc # "await"

\* C20: fetch_secrets writes the non-blank fields one after another in the order of
\* the dialog's dict.  The fields written are a prefix of them; each written field
\* holds its value and is listed.  If a write fails, the fields written before it
\* stay stored, the fields after it are not written, and fetch_secrets raises and
\* reports no success; if none fails, it returns success.
C20_NoRollback ==
    [][(/\ FetchFinishesFault
        /\ dialog_task.state = "done" /\ dialog_task.returns = "dict"
        /\ stored_count(dialog_task.secrets) > 0)
           => LET writes == NonBlank(dialog_task.secrets)
              IN  \E k \in 0..Len(writes) :
                      /\ fetch'.stored = FieldNames(SubSeq(writes, 1, k))
                      /\ \A i \in 1..k :
                             /\ Storage_retrieve_secret(keyring', writes[i][1]) = PyStr(writes[i][2])
                             /\ writes[i][1] \in Storage_list_secrets(keyring')
                      /\ IF k < Len(writes)
                         THEN /\ fetch'.pc = "raised" /\ ~fetch'.status /\ fetch'.message = ""
                              /\ \A i \in (k + 2)..Len(writes) :
                                     keyring'[writes[i][1]] = keyring[writes[i][1]]
                         ELSE fetch'.pc = "returned" /\ fetch'.status]_vars

\* C20 witness: of two collected fields the first was written and is stored and
\* listed, the write of the second failed and fetch_secrets raised
C20_Witness ==
    /\ fetch.pc = "raised" /\ fetch.error = "keyring error"
    /\ stored_count(dialog_task.secrets) = 2 /\ Len(fetch.stored) = 1
    /\ fetch.stored[1] = dialog_task.secrets[1][1]
    /\ retrieve_secret(fetch.stored[1]) = PyStr("sk-123")
    /\ fetch.stored[1] \in list_secrets


(***************************************************************************)
(* Properties of fetch_secrets when the dialog task is cancelled.          *)
(***************************************************************************)
\* C21: when the confirmation is accepted and the dialog task was cancelled before
\* or while fetch_secrets awaits its result, fetch_secrets returns a cancelled
\* outcome (status False, "Dialog cancelled."), never success, and the step stores
\* nothing and leaves the vault as it was.
C21_CancelledTaskReported ==
    /\ []((fetch.action = "accept" /\ fetch.pc \in {"returned", "raised"}
               /\ dialog_task.state = "cancelled")
              => /\ fetch.pc = "returned" /\ ~fetch.status
                 /\ fetch.message = "Dialog cancelled."
                 /\ fetch.stored = <<>>)
    /\ [][(FetchFinishes /\ dialog_task.state = "cancelled") => keyring' = keyring]_vars

\* C21 witness: the confirmation was accepted while the dialog process was running,
\* the task was cancelled during the await, and fetch_secrets returned
C21_Witness ==
    /\ fetch.pc = "returned" /\ fetch.action = "accept"
    /\ fetch.task_at_answer = "running"
    /\ dialog_task.state = "cancelled"


(***************************************************************************)
(* Properties of one manager's operations running beside each other.       *)
(***************************************************************************)
\* the step in which a pending prompt is answered "Allow for Session": the name of
\* the call joins the session permissions
GrantStep ==
    /\ rwp.pc = "elicit" /\ rwp'.pc = "returned"
    /\ Accepted(rwp'.response, <<"Allow for Session">>)
    /\ session_permissions' = session_permissions \cup {rwp.secret_name}

\* C22: the session permissions change in two kinds of step only: initialize(),
\* and the answer "Allow for Session", which adds a name.  Every other step
\* (store_secret, clear_secrets, the steps of fetch_secrets, a call that is denied
\* or allowed once) leaves them as they were; so a call for a secret that was
\* answered "Allow for Session" returns the value now stored without a prompt, also
\* after the secret was cleared and stored again.
C22_GrantsOutliveSecrets ==
    [][/\ session_permissions' = session_permissions \/ GrantStep \/ initialize
       /\ \A n \in RequestNames, ctx \in BOOLEAN :
              (n \in granted /\ secret_exists(n) /\ retrieve_secret_with_permission(n, ctx))
                  => /\ rwp'.pc = "returned" /\ ~rwp'.prompted
                     /\ rwp'.result = retrieve_secret(n) /\ rwp'.result # PyNone]_vars

\* C22 witness: a secret was granted for the session, cleared and stored again, and
\* the call made after that returned the new value without a prompt and without ctx
C22_Witness ==
    /\ rwp.pc = "returned" /\ ~rwp.prompted /\ ~rwp.ctx
    /\ rwp.after_clear /\ rwp.secret_name \in session_permissions
    /\ rwp.result # PyNone /\ rwp.result = retrieve_secret(rwp.secret_name)
    /\ ~BypassActive


\* C23: a call whose prompt is accepted returns what the vault holds for the secret
\* when the prompt is answered, whatever store_secret, fetch_secrets or
\* clear_secrets did while the prompt was pending: the value stored then, or None,
\* without an error, when the secret is no longer stored.
C23_ReadAfterAnswer ==
    [][\A result \in SessionResults :
           (~permission_denied(result) /\ retrieve_secret_with_permission_resume(result))
               => /\ rwp'.pc = "returned" /\ rwp'.error = ""
                  /\ rwp'.result = Storage_retrieve_secret(keyring, rwp.secret_name)
                  /\ rwp'.result = Storage_retrieve_secret(keyring', rwp.secret_name)]_vars

\* C23 witness: the secret existed when the call checked for it, was cleared while
\* the prompt was pending, and the call, answered "Allow", returned None
C23_Witness ==
    /\ rwp.pc = "returned" /\ rwp.prompted /\ Accepted(rwp.response, <<"Allow">>)
    /\ rwp.at_check # PyNone
    /\ rwp.result = PyNone /\ rwp.error = ""

=============================================================================
